---- MODULE Spec2Model ----
(***************************************************************************)
(* Model of app/main.py: the POST /chat handler of the Boer War personas   *)
(* bot, its two helpers generate_chat_reply and synthesize_tts, the two    *)
(* hosted services they call and the media directory they write to.        *)
(*                                                                         *)
(* Texts are sequences of one-character strings, so that str.strip() is    *)
(* computed rather than assumed.  An Optional value is a sequence of       *)
(* length at most one: <<>> is None, <<x>> is the value x.                 *)
(***************************************************************************)
EXTENDS Integers, Sequences, FiniteSets, TLC

\* ------------------------------------------------------------- bounds
\* Number of /chat requests the runtime handles (any number may be in flight).
NumRequests == 2
\* Largest number of chunks in a streamed speech body.
MaxChunks == 2

Requests == 1..NumRequests

\* ------------------------------------------------------------- values
None == <<>>
Some(x) == <<x>>

\* uuid4().hex values; token 0 names a file left by an earlier process.
Tokens == 0..NumRequests

\* ------------------------------------------------------------- registry
PERSONA_NAMES ==
    [p \in {"boer_commando_jan_du_preez",
            "afrikaner_woman_camp_anna_van_der_merwe",
            "black_man_with_boers_daniel_kgoathe",
            "british_soldier_arthur_jennings"} |->
        CASE p = "boer_commando_jan_du_preez" -> "Jan du Preez"
          [] p = "afrikaner_woman_camp_anna_van_der_merwe" -> "Anna van der Merwe"
          [] p = "black_man_with_boers_daniel_kgoathe" -> "Daniel Kgoathe"
          [] p = "british_soldier_arthur_jennings" -> "Private Arthur Jennings"]

voice_map ==
    [p \in {"boer_commando_jan_du_preez",
            "afrikaner_woman_camp_anna_van_der_merwe",
            "black_man_with_boers_daniel_kgoathe",
            "british_soldier_arthur_jennings"} |->
        CASE p = "boer_commando_jan_du_preez" -> "onyx"
          [] p = "afrikaner_woman_camp_anna_van_der_merwe" -> "coral"
          [] p = "black_man_with_boers_daniel_kgoathe" -> "alloy"
          [] p = "british_soldier_arthur_jennings" -> "verse"]

\* dict.get(key, default)
Get(d, key, default) == IF key \in DOMAIN d THEN d[key] ELSE default

\* PERSONA_NAMES.get(persona_id, "Unknown persona")
persona_name(persona_id) == Get(PERSONA_NAMES, persona_id, "Unknown persona")

\* A lookup that takes the default voice for every id.
voice_default(persona_id) == "onyx"

\* voice_map.get(persona_id, "onyx")
voice(persona_id) == Get(voice_map, persona_id, "onyx")

\* A membership test that lets every id through.
AnyPersona(persona_id) == TRUE

\* inp.persona_id in PERSONA_NAMES
KnownPersona(persona_id) == persona_id \in DOMAIN PERSONA_NAMES

\* ------------------------------------------------------------- texts
IsSpace(c) == c \in {" ", "\n", "\t"}

RECURSIVE lstrip(_)
lstrip(s) == IF s # <<>> /\ IsSpace(Head(s)) THEN lstrip(Tail(s)) ELSE s

RECURSIVE rstrip(_)
rstrip(s) ==
    IF s # <<>> /\ IsSpace(s[Len(s)]) THEN rstrip(SubSeq(s, 1, Len(s) - 1)) ELSE s

\* str.strip()
strip(s) == rstrip(lstrip(s))

\* ------------------------------------------------------------- inputs
\* One id of the registry and one id outside it.
PersonaInputs == {"british_soldier_arthur_jennings", "napoleon"}

MessageInputs == {<<"H", "i">>}

ChatInput == [persona_id : PersonaInputs, message : MessageInputs, tts : BOOLEAN]

\* What client.chat.completions.create can do: raise, or return a completion
\* with no choice, with a choice whose content is None, or with a text.
Contents == {<<>>, <<" ", "\n">>, <<" ", "J", "a", "\n">>}

CompletionOutcomes ==
    {[kind |-> k, content |-> <<>>] : k \in {"raise", "no_choices", "none_content"}}
    \cup {[kind |-> "content", content |-> t] : t \in Contents}

\* ------------------------------------------------------------- state
VARIABLES
    pc,        \* position of each request's handler
    inp,       \* the parsed ChatInput of each request
    reply,     \* chat_endpoint's local reply
    out_path,  \* synthesize_tts's local out_path (a file name under MEDIA_DIR)
    body,      \* chunks in the open speech response
    audio_url, \* chat_endpoint's local audio_url
    response,  \* the HTTP response sent
    media,     \* MEDIA_DIR: file name -> [size, writers]
    issued,    \* tokens uuid4 has produced, and those of files in MEDIA_DIR
    log        \* per request: calls made to the two services, and their arguments

vars == <<pc, inp, reply, out_path, body, audio_url, response, media, issued, log>>

NoInput == [persona_id |-> "", message |-> <<>>, tts |-> FALSE]

\* chat, tts: calls made to the completion and the speech service;
\* persona_id, name: the id generate_chat_reply got and the name in its prompt;
\* completion: what the completion call did; text, voice: what synthesize_tts
\* got as text and chose as voice; tts_outcome: how synthesize_tts ended.
NoLog == [chat |-> 0, tts |-> 0, persona_id |-> None, name |-> "",
          completion |-> "none", text |-> None, voice |-> "",
          tts_outcome |-> "none"]

\* MEDIA_DIR / f"{token}.wav"
FileName(token) == <<token, ".wav">>

FileNames == {FileName(t) : t \in Tokens}

\* f"/media/{out_path.name}"
MediaUrl(path) == <<"/media/">> \o path

NoFile == [exists |-> FALSE, size |-> 0, writers |-> {}]

\* MEDIA_DIR.mkdir(exist_ok=True): the directory may hold files of earlier runs.
LeftoverDir ==
    [f \in FileNames |->
        IF f = FileName(0) THEN [exists |-> TRUE, size |-> 1, writers |-> {}]
        ELSE NoFile]

Files == {f \in FileNames : media[f].exists}

Init ==
    /\ pc = [r \in Requests |-> "idle"]
    /\ inp = [r \in Requests |-> NoInput]
    /\ reply = [r \in Requests |-> None]
    /\ out_path = [r \in Requests |-> None]
    /\ body = [r \in Requests |-> 0]
    /\ audio_url = [r \in Requests |-> None]
    /\ response = [r \in Requests |-> None]
    /\ media = LeftoverDir
    /\ issued = {0}
    /\ log = [r \in Requests |-> NoLog]

\* ------------------------------------------------------------- responses
\* ChatOutput(reply=..., audio_url=..., avatar=None), sent with status 200
ChatOutput(rep, url) ==
    [status |-> 200, reply |-> Some(rep), audio_url |-> url, avatar |-> None]

\* HTTPException(status_code=400, detail="Unknown persona_id")
BadRequest == [status |-> 400, reply |-> None, audio_url |-> None, avatar |-> None]

\* An exception that leaves chat_endpoint: the framework answers 500.
ServerError == [status |-> 500, reply |-> None, audio_url |-> None, avatar |-> None]

\* ------------------------------------------------------------- chat_endpoint
\* A POST /chat request arrives and its body is parsed into a ChatInput.
Receive(r, i) ==
    /\ pc[r] = "idle"
    /\ inp' = [inp EXCEPT ![r] = i]
    /\ pc' = [pc EXCEPT ![r] = "validate"]
    /\ UNCHANGED <<reply, out_path, body, audio_url, response, media, issued, log>>

\* if inp.persona_id not in PERSONA_NAMES: raise HTTPException(400)
Validate(r) ==
    /\ pc[r] = "validate"
    /\ IF KnownPersona(inp[r].persona_id)
       THEN /\ pc' = [pc EXCEPT ![r] = "generate"]
            /\ UNCHANGED response
       ELSE /\ pc' = [pc EXCEPT ![r] = "done"]
            /\ response' = [response EXCEPT ![r] = Some(BadRequest)]
    /\ UNCHANGED <<inp, reply, out_path, body, audio_url, media, issued, log>>

\* A helper that answers with an empty text where the code raises.
CompletionTextFallback(o) ==
    IF o.kind = "content"
    THEN [raised |-> FALSE, text |-> strip(o.content)]
    ELSE [raised |-> FALSE, text |-> <<>>]

\* chat.choices[0].message.content.strip(): the create call may raise,
\* choices[0] raises IndexError on no choice, None.strip() raises AttributeError.
CompletionText(o) ==
    IF o.kind = "content"
    THEN [raised |-> FALSE, text |-> strip(o.content)]
    ELSE [raised |-> TRUE, text |-> <<>>]

\* reply = generate_chat_reply(inp.persona_id, inp.message)
GenerateReply(r, o) ==
    /\ pc[r] = "generate"
    /\ log' = [log EXCEPT ![r].chat = @ + 1,
                          ![r].name = persona_name(inp[r].persona_id),
                          ![r].persona_id = Some(inp[r].persona_id),
                          ![r].completion = o.kind]
    /\ IF CompletionText(o).raised
       THEN /\ pc' = [pc EXCEPT ![r] = "done"]
            /\ response' = [response EXCEPT ![r] = Some(ServerError)]
            /\ UNCHANGED reply
       ELSE /\ pc' = [pc EXCEPT ![r] = "audio"]
            /\ reply' = [reply EXCEPT ![r] = Some(CompletionText(o).text)]
            /\ UNCHANGED response
    /\ UNCHANGED <<inp, out_path, body, audio_url, media, issued>>

\* A handler that synthesizes whatever the request says.
AlwaysTts(r) == TRUE

\* ... if inp.tts else None
WantsTts(r) == inp[r].tts

\* audio_url = None when inp.tts is false
SkipTts(r) ==
    /\ pc[r] = "audio"
    /\ ~WantsTts(r)
    /\ audio_url' = [audio_url EXCEPT ![r] = None]
    /\ pc' = [pc EXCEPT ![r] = "respond"]
    /\ UNCHANGED <<inp, reply, out_path, body, response, media, issued, log>>

\* ------------------------------------------------------------- synthesize_tts
\* A call that passes the user's message where the code passes the reply.
SynthArgsMessage(r) == [text |-> inp[r].message, persona_id |-> inp[r].persona_id]

\* synthesize_tts(reply, inp.persona_id)
SynthArgs(r) == [text |-> reply[r][1], persona_id |-> inp[r].persona_id]

\* A token source that may repeat a token it gave before.
uuid4_repeating(used) == Tokens

\* uuid.uuid4().hex: a token not produced before (122 random bits)
uuid4(used) == Tokens \ used

\* voice = voice_map.get(persona_id, "onyx"); out_path = MEDIA_DIR / f"{uuid}.wav"
SynthesizeBegin(r, tok) ==
    /\ pc[r] = "audio"
    /\ WantsTts(r)
    /\ tok \in uuid4(issued)
    /\ issued' = issued \cup {tok}
    /\ out_path' = [out_path EXCEPT ![r] = Some(FileName(tok))]
    /\ log' = [log EXCEPT ![r].voice = voice(SynthArgs(r).persona_id),
                          ![r].text = Some(SynthArgs(r).text)]
    /\ pc' = [pc EXCEPT ![r] = "create"]
    /\ UNCHANGED <<inp, reply, body, audio_url, response, media>>

\* An except clause that lets the error leave the handler.
ExceptReraise(r, why) ==
    /\ response' = [response EXCEPT ![r] = Some(ServerError)]
    /\ log' = [log EXCEPT ![r].tts_outcome = why,
                          ![r].tts = IF why = "call_failed" THEN @ + 1 ELSE @]
    /\ pc' = [pc EXCEPT ![r] = "done"]
    /\ out_path' = [out_path EXCEPT ![r] = None]
    /\ body' = [body EXCEPT ![r] = 0]
    /\ UNCHANGED audio_url

\* except Exception: print, traceback.print_exc(), return None
Except(r, why) ==
    /\ audio_url' = [audio_url EXCEPT ![r] = None]
    /\ log' = [log EXCEPT ![r].tts_outcome = why,
                          ![r].tts = IF why = "call_failed" THEN @ + 1 ELSE @]
    /\ pc' = [pc EXCEPT ![r] = "respond"]
    /\ out_path' = [out_path EXCEPT ![r] = None]
    /\ body' = [body EXCEPT ![r] = 0]
    /\ UNCHANGED response

\* client.audio.speech.with_streaming_response.create(...) opens a response
\* whose body has n chunks.
TtsCreate(r, n) ==
    /\ pc[r] = "create"
    /\ body' = [body EXCEPT ![r] = n]
    /\ log' = [log EXCEPT ![r].tts = @ + 1]
    /\ pc' = [pc EXCEPT ![r] = "open"]
    /\ UNCHANGED <<inp, reply, out_path, audio_url, response, media, issued>>

\* A synthesizer that creates its file before the call, and leaves it.
TtsCreateFailsLeavingFile(r) ==
    /\ pc[r] = "create"
    /\ Except(r, "call_failed")
    /\ media' = [media EXCEPT ![out_path[r][1]] =
                    [exists |-> TRUE, size |-> 0, writers |-> @.writers \cup {r}]]
    /\ UNCHANGED <<inp, reply, issued>>

\* The create call raises (network, quota, rejected input).
TtsCreateFails(r) ==
    /\ pc[r] = "create"
    /\ Except(r, "call_failed")
    /\ UNCHANGED <<inp, reply, media, issued>>

\* response.stream_to_file(out_path): open(out_path, "wb") creates the file,
\* or truncates the file of that name.
StreamOpen(r) ==
    /\ pc[r] = "open"
    /\ media' = [media EXCEPT ![out_path[r][1]] =
                    [exists |-> TRUE, size |-> 0, writers |-> @.writers \cup {r}]]
    /\ pc' = [pc EXCEPT ![r] = "stream"]
    /\ UNCHANGED <<inp, reply, out_path, body, audio_url, response, issued, log>>

\* open(out_path, "wb") raises: no file is created.
StreamOpenFails(r) ==
    /\ pc[r] = "open"
    /\ Except(r, "open_failed")
    /\ UNCHANGED <<inp, reply, media, issued>>

\* stream_to_file writes the next chunk of the body.
StreamChunk(r) ==
    /\ pc[r] = "stream"
    /\ media[out_path[r][1]].size < body[r]
    /\ media' = [media EXCEPT ![out_path[r][1]].size = @ + 1]
    /\ UNCHANGED <<pc, inp, reply, out_path, body, audio_url, response, issued, log>>

\* Reading the body or writing the file raises; what was written stays.
StreamFails(r) ==
    /\ pc[r] = "stream"
    /\ Except(r, "stream_failed")
    /\ UNCHANGED <<inp, reply, media, issued>>

\* A synthesizer that returns the URL without waiting for the body.
StreamFinishedEarly(r) == TRUE

\* The with block is left once stream_to_file has written the whole body.
StreamFinished(r) == media[out_path[r][1]].size = body[r]

\* return f"/media/{out_path.name}"
StreamReturn(r) ==
    /\ pc[r] = "stream"
    /\ StreamFinished(r)
    /\ audio_url' = [audio_url EXCEPT ![r] = Some(MediaUrl(out_path[r][1]))]
    /\ log' = [log EXCEPT ![r].tts_outcome = "ok"]
    /\ pc' = [pc EXCEPT ![r] = "respond"]
    /\ UNCHANGED <<inp, reply, out_path, body, response, media, issued>>

\* return ChatOutput(reply=reply, audio_url=audio_url, avatar=None)
Respond(r) ==
    /\ pc[r] = "respond"
    /\ response' = [response EXCEPT ![r] = Some(ChatOutput(reply[r][1], audio_url[r]))]
    /\ pc' = [pc EXCEPT ![r] = "done"]
    /\ UNCHANGED <<inp, reply, out_path, body, audio_url, media, issued, log>>

\* ------------------------------------------------------------- system
Next ==
    \/ \E r \in Requests, i \in ChatInput : Receive(r, i)
    \/ \E r \in Requests : Validate(r)
    \/ \E r \in Requests, o \in CompletionOutcomes : GenerateReply(r, o)
    \/ \E r \in Requests : SkipTts(r)
    \/ \E r \in Requests, tok \in Tokens : SynthesizeBegin(r, tok)
    \/ \E r \in Requests, n \in 1..MaxChunks : TtsCreate(r, n)
    \/ \E r \in Requests : TtsCreateFails(r)
    \/ \E r \in Requests : StreamOpen(r)
    \/ \E r \in Requests : StreamOpenFails(r)
    \/ \E r \in Requests : StreamChunk(r)
    \/ \E r \in Requests : StreamFails(r)
    \/ \E r \in Requests : StreamReturn(r)
    \/ \E r \in Requests : Respond(r)

Spec == Init /\ [][Next]_vars

TypeOK ==
    /\ pc \in [Requests -> {"idle", "validate", "generate", "audio", "create",
                            "open", "stream", "respond", "done"}]
    /\ \A r \in Requests : Len(response[r]) <= 1 /\ Len(reply[r]) <= 1
    /\ issued \subseteq Tokens

\* ------------------------------------------------------------- properties
Done(r) == pc[r] = "done"

Answered(r, status) == Done(r) /\ response[r] # None /\ response[r][1].status = status

\* synthesize_tts has been entered for request r
SynthInvoked(r) == log[r].text # None

\* the files request r opened for writing
WroteBy(r) == {f \in Files : r \in media[f].writers}

FailedOutcomes == {"call_failed", "open_failed", "stream_failed"}

FailedCompletions == {"raise", "no_choices", "none_content"}

\* C1: a request whose persona_id is not in the registry ends with the 400
\* response, and at no point of its handling has it called the completion
\* service or the speech service, entered either helper or written a file.
C1_UnknownPersonaRejected ==
    \A r \in Requests :
        (pc[r] # "idle" /\ inp[r].persona_id \notin DOMAIN PERSONA_NAMES) =>
            /\ pc[r] \in {"validate", "done"}
            /\ log[r].chat = 0 /\ log[r].tts = 0
            /\ log[r].persona_id = None /\ ~SynthInvoked(r)
            /\ WroteBy(r) = {}
            /\ Done(r) => response[r] = Some(BadRequest)

C1_Witness ==
    \E r \in Requests :
        /\ inp[r].persona_id = "napoleon" /\ inp[r].tts
        /\ Answered(r, 400)

\* C2: when the completion call raises, or returns no choice or a None content,
\* the request ends with the 500 response, which carries no reply, and the
\* speech synthesizer is not entered nor the speech service called, for tts
\* true and false alike.
C2_ReplyFailureIsServerError ==
    \A r \in Requests :
        log[r].completion \in FailedCompletions =>
            /\ Done(r)
            /\ response[r] = Some(ServerError)
            /\ response[r][1].reply = None
            /\ ~SynthInvoked(r) /\ log[r].tts = 0
            /\ WroteBy(r) = {}

C2_Witness ==
    \E r \in Requests :
        /\ log[r].completion = "none_content" /\ inp[r].tts
        /\ Answered(r, 500)

\* C3: with a registered persona, tts true and a generated reply, a failure of
\* the speech call, of opening the file or of streaming to it leaves audio_url
\* None, and the request ends with the 200 response carrying the generated
\* reply and no audio_url; it never ends with an error response.
C3_TtsFailureSwallowed ==
    \A r \in Requests :
        log[r].tts_outcome \in FailedOutcomes =>
            /\ pc[r] \in {"respond", "done"}
            /\ inp[r].tts /\ reply[r] # None
            /\ audio_url[r] = None
            /\ Done(r) => response[r] = Some(ChatOutput(reply[r][1], None))

C3_Witness ==
    \E r \in Requests :
        /\ log[r].tts_outcome = "stream_failed"
        /\ Answered(r, 200)
        /\ response[r][1].reply # Some(<<>>)
        /\ response[r][1].audio_url = None

\* the file a URL names exists and holds the whole body streamed for request r
UrlNamesWholeFile(r, url) ==
    \E tok \in Tokens :
        /\ url = <<"/media/", tok, ".wav">>
        /\ media[FileName(tok)].exists
        /\ body[r] >= 1
        /\ media[FileName(tok)].size = body[r]

\* C4: whenever synthesize_tts has returned a URL, and whenever a 200 response
\* carries one, the URL is /media/<token>.wav and the file of that name exists
\* in the media directory holding the whole streamed body, whatever the other
\* requests in flight are doing.
C4_AudioUrlNamesWrittenFile ==
    \A r \in Requests :
        /\ audio_url[r] # None => UrlNamesWholeFile(r, audio_url[r][1])
        /\ (Answered(r, 200) /\ response[r][1].audio_url # None) =>
               UrlNamesWholeFile(r, response[r][1].audio_url[1])

C4_Witness ==
    \E r \in Requests :
        /\ Answered(r, 200)
        /\ response[r][1].audio_url # None
        /\ body[r] = 2
        /\ \E q \in Requests : q # r /\ pc[q] = "stream"

\* C5: a request never ends with a 200 response whose reply is the empty text.
C5_NoEmptyReply ==
    \A r \in Requests :
        Answered(r, 200) => response[r][1].reply # Some(<<>>)

\* C6 as stated: a synthesizer call that succeeds has added exactly one file,
\* and one that failed, at whatever point, has added none.
C6_FailedCallAddsNoFile ==
    \A r \in Requests :
        /\ log[r].tts_outcome = "ok" => Cardinality(WroteBy(r)) = 1
        /\ log[r].tts_outcome \in FailedOutcomes => WroteBy(r) = {}

\* C6 amended: a synthesizer call that succeeds has added exactly one new file;
\* one that failed in the speech call or in opening the file has added none;
\* one that failed while streaming has left the one new file it opened, and
\* returned no URL.
C6_FailedCallAddsNoFileUnlessStreaming ==
    \A r \in Requests :
        /\ \A f \in WroteBy(r) : media[f].writers = {r}
        /\ log[r].tts_outcome = "ok" => Cardinality(WroteBy(r)) = 1
        /\ log[r].tts_outcome \in {"call_failed", "open_failed"} => WroteBy(r) = {}
        /\ log[r].tts_outcome = "stream_failed" =>
               Cardinality(WroteBy(r)) = 1 /\ audio_url[r] = None

C6_Witness ==
    \E r, q \in Requests :
        /\ log[r].tts_outcome = "stream_failed"
        /\ \E f \in WroteBy(r) : media[f].size = 1
        /\ log[q].tts_outcome = "call_failed"
        /\ Done(r) /\ Done(q)

\* C7: with a registered persona and tts false, the synthesizer is not entered,
\* the speech service is not called, the request writes no file, and its 200
\* response has audio_url None and avatar None.
C7_NoTtsNoAudio ==
    \A r \in Requests :
        (pc[r] # "idle" /\ KnownPersona(inp[r].persona_id) /\ ~inp[r].tts) =>
            /\ ~SynthInvoked(r) /\ log[r].tts = 0
            /\ out_path[r] = None /\ WroteBy(r) = {}
            /\ audio_url[r] = None
            /\ Answered(r, 200) =>
                   /\ response[r][1].audio_url = None
                   /\ response[r][1].avatar = None

C7_Witness ==
    \E r \in Requests :
        /\ ~inp[r].tts
        /\ Answered(r, 200)
        /\ response[r][1].reply # Some(<<>>)

\* C8: two requests that obtained an audio_url obtained different ones, also
\* for the same persona_id and message; a file is written by one request
\* only, and a request writes no file but the one its own token names.
C8_DistinctAudioFiles ==
    /\ \A r, q \in Requests :
           (r # q /\ audio_url[r] # None /\ audio_url[q] # None) =>
               audio_url[r] # audio_url[q]
    /\ \A r, q \in Requests :
           (r # q /\ Answered(r, 200) /\ Answered(q, 200)
                  /\ response[r][1].audio_url # None) =>
               response[r][1].audio_url # response[q][1].audio_url
    /\ \A f \in Files : Cardinality(media[f].writers) <= 1
    /\ \A r \in Requests :
           /\ Cardinality(WroteBy(r)) <= 1
           /\ out_path[r] # None => WroteBy(r) \subseteq {out_path[r][1]}

C8_Witness ==
    \E r, q \in Requests :
        /\ r # q /\ inp[r] = inp[q]
        /\ Answered(r, 200) /\ Answered(q, 200)
        /\ response[r][1].audio_url # None /\ response[q][1].audio_url # None

\* C9: a request calls the completion service at most once and the speech
\* service at most once; the synthesizer is entered only after validation
\* passed and the completion returned a text, its input is the reply, and the
\* 200 response carries that same reply; the response is sent last.
C9_LinearFlow ==
    \A r \in Requests :
        /\ log[r].chat <= 1 /\ log[r].tts <= 1
        /\ log[r].chat = 1 <=> pc[r] \notin {"idle", "validate", "generate"}
                               /\ ~Answered(r, 400)
        /\ log[r].chat = 1 => KnownPersona(inp[r].persona_id)
        /\ log[r].tts = 1 => SynthInvoked(r)
        /\ SynthInvoked(r) =>
               /\ log[r].completion = "content"
               /\ reply[r] # None /\ log[r].text = reply[r]
               /\ pc[r] \in {"create", "open", "stream", "respond", "done"}
        /\ response[r] # None <=> Done(r)
        /\ Answered(r, 200) =>
               /\ response[r][1].reply = reply[r]
               /\ SynthInvoked(r) => log[r].text = response[r][1].reply
               /\ SynthInvoked(r) <=> inp[r].tts

C9_Witness ==
    \E r \in Requests :
        /\ Answered(r, 200)
        /\ log[r].chat = 1 /\ log[r].tts = 1
        /\ log[r].text = Some(<<"J", "a">>)
        /\ response[r][1].audio_url # None

\* C10: the name table and the voice table have the same keys, and whenever
\* the handler has called the reply generator or the synthesizer, the id it
\* passed is a key of both, the prompt's name is that persona's name and not
\* "Unknown persona", and the voice is the one the voice table maps the id to.
C10_FallbacksUnreachable ==
    /\ DOMAIN PERSONA_NAMES = DOMAIN voice_map
    /\ \A r \in Requests :
           /\ log[r].chat > 0 =>
                  /\ log[r].persona_id # None
                  /\ log[r].persona_id[1] \in DOMAIN PERSONA_NAMES
                  /\ log[r].persona_id[1] \in DOMAIN voice_map
                  /\ log[r].name = PERSONA_NAMES[log[r].persona_id[1]]
                  /\ log[r].name # "Unknown persona"
           /\ SynthInvoked(r) =>
                  /\ inp[r].persona_id \in DOMAIN voice_map
                  /\ log[r].voice = voice_map[inp[r].persona_id]

C10_Witness ==
    \E r \in Requests :
        /\ SynthInvoked(r)
        /\ log[r].name = "Private Arthur Jennings"
        /\ log[r].voice = "verse"

====
